---------------------------- MODULE Spec2Model ----------------------------
(***************************************************************************)
(* Adaptive drill scheduler of EarTrainer                                  *)
(* (src/eartrainer/eartrainer_Cpp/example.py): speed credit, isotonic      *)
(* (pool-adjacent-violators) fit, per-level tempo calibrators and the      *)
(* bout-level DrillHub.                                                    *)
(*                                                                         *)
(* Numbers.  Python floats are modelled as fixed-point decimals: the       *)
(* integer x stands for x / Scale.  Every product and quotient is rounded  *)
(* down to the next multiple of 1 / Scale, where the float rounds to the   *)
(* nearest double.  Integers of the program (N, tempo, counts) are plain   *)
(* integers.                                                               *)
(*                                                                         *)
(* Optional values.  None is the empty sequence <<>>, a present value v    *)
(* is the one-element sequence <<v>>.                                      *)
(***************************************************************************)
EXTENDS Integers, Sequences, FiniteSets, TLC

VARIABLES
    \* ---- DrillHub instance state (example.py:211-231)
    F,                \* target fitness
    N_set,            \* allowed difficulty levels (list)
    active_tempos,    \* active tempo list of the bout
    calibrators,      \* N -> bins;  bins: tempo_center -> BinStat
    last_candidate,   \* Optional[DrillCandidate]
    bout,             \* BoutStats
    last_N,           \* Optional[int]
    last_tempo,       \* Optional[int]
    \* ---- observation of the calls made on the hub
    ret,              \* what the last call did: operation, outcome, result
    pending,          \* next() was called in this bout since the last feedback()
    strict,           \* the bout so far is rounds of a next() that returned
                      \* and a feedback(True, s), in turn
    rounds,           \* number of completed rounds
    credit_sum,       \* sum of credit(s) over these rounds
    fb_total,         \* number of feedback calls that were attributed
    watch,            \* Optional, kept when the bouts are watched: the number
                      \* of next() calls of the current bout (counted up to
                      \* MaxFeedback) and whether one of them returned
    \* ---- derived from the calibrators
    curve_table,      \* N -> what smoothed_curve() of calibrators[N] returns
    \* ---- a call of IsotonicNonIncreasing.fit on its own
    fit_values, fit_weights, fitted,
    \* ---- a TempoCalibrator on its own
    cal_bins,         \* its bins
    cal_updates,      \* number of update() calls made on it
    \* ---- a pure function or a constructor called on its own
    call_args,        \* the arguments
    call_result       \* Optional: what the call returned or raised

vars == <<F, N_set, active_tempos, calibrators, last_candidate, bout, last_N,
          last_tempo, ret, pending, strict, rounds, credit_sum, fb_total,
          watch, curve_table,
          fit_values, fit_weights, fitted, cal_bins, cal_updates,
          call_args, call_result>>

hub_vars == <<F, N_set, active_tempos, calibrators, last_candidate, bout,
              last_N, last_tempo>>

obs_vars == <<pending, strict, rounds, credit_sum, fb_total, watch,
              curve_table>>

fit_vars == <<fit_values, fit_weights, fitted>>

cal_vars == <<cal_bins, cal_updates>>

call_vars == <<call_args, call_result>>

-----------------------------------------------------------------------------
(* Fixed-point arithmetic *)

Scale == 10 * 100

Mul(a, b) == (a * b) \div Scale
Div(a, b) == (a * Scale) \div b

Min2(a, b) == IF a <= b THEN a ELSE b
Max2(a, b) == IF a >= b THEN a ELSE b
Abs(x) == IF x < 0 THEN 0 - x ELSE x

None == <<>>
Some(v) == <<v>>

\* The list [e(1), ..., e(n)] with every element computed once
ListOf(f) == SubSeq(f, 1, Len(f))

-----------------------------------------------------------------------------
(* Bounds of the model *)

MaxFeedback == 2      \* attributed feedback calls over the lifetime
MaxFitLen == 4        \* length of the inputs given to fit on its own
MaxCalUpdates == 2    \* update() calls on the calibrator on its own
MaxEndUpdates == 24   \* update() calls at either end bin of a calibrator
MaxZeroFitLen == 3    \* length of the inputs given to fit with weights from 0

-----------------------------------------------------------------------------
(* Constants & helpers *)

T_MIN_SEC == 1 * Scale
T_MAX_SEC == 9 * Scale

clip01(x) == Max2(0, Min2(Scale, x))

norm_tempo(t, tmin, tmax) == clip01(((t - tmin) * Scale) \div (tmax - tmin))

\* slip: the slope divides by T_MAX_SEC in place of T_MAX_SEC - T_MIN_SEC
speed_credit_over_max(sec) ==
    IF sec <= T_MIN_SEC THEN Scale
    ELSE IF sec >= T_MAX_SEC THEN 0
    ELSE Scale - Div(sec - T_MIN_SEC, T_MAX_SEC)

speed_credit_from_seconds(sec) ==
    IF sec <= T_MIN_SEC THEN Scale
    ELSE IF sec >= T_MAX_SEC THEN 0
    ELSE Scale - Div(sec - T_MIN_SEC, T_MAX_SEC - T_MIN_SEC)

-----------------------------------------------------------------------------
(* Isotonic regression (PAV), non-increasing fit *)

IsoPoint(v, w) == [value |-> v, weight |-> w]

RECURSIVE SumWeight(_)
SumWeight(block) ==
    IF block = <<>> THEN 0 ELSE Head(block).weight + SumWeight(Tail(block))

RECURSIVE SumValueWeight(_)
SumValueWeight(block) ==
    IF block = <<>> THEN 0
    ELSE Head(block).value * Head(block).weight + SumValueWeight(Tail(block))

\* slip: the mean of the values, whatever the weights
block_mean_unweighted(block) ==
    LET sum[k \in 0..Len(block)] ==
            IF k = 0 THEN 0 ELSE sum[k - 1] + block[k].value
    IN  IF block = <<>> THEN 0 ELSE sum[Len(block)] \div Len(block)

block_mean(block) ==
    LET w == SumWeight(block)
    IN  IF w = 0 THEN 0 ELSE SumValueWeight(block) \div w

\* del blocks[i + 1] after blocks[i] = blocks[i] + blocks[i + 1]
PoolBlocks(blocks, i) ==
    SubSeq(blocks, 1, i - 1) \o <<blocks[i] \o blocks[i + 1]>>
        \o SubSeq(blocks, i + 2, Len(blocks))

\* The while loop of fit.  i is the 1-based scan index.  The list means keeps
\* its length: the code deletes from blocks only.
RECURSIVE PavLoop(_, _, _)
PavLoop(blocks, means, i) ==
    IF i < Len(blocks)
    THEN IF means[i] < means[i + 1]
         THEN LET pooled == PoolBlocks(blocks, i)
              IN  PavLoop(pooled,
                          [means EXCEPT ![i] = block_mean(pooled[i])],
                          IF i > 1 THEN i - 1 ELSE i)
         ELSE PavLoop(blocks, means, i + 1)
    ELSE blocks

RECURSIVE Expand(_)
Expand(blocks) ==
    IF blocks = <<>> THEN <<>>
    ELSE LET m == block_mean(Head(blocks))
         IN  [k \in 1..Len(Head(blocks)) |-> m] \o Expand(Tail(blocks))

\* slip: the values come back as they are, nothing is pooled
fit_identity(values, weights) == values

fit(values, weights) ==
    LET n == Len(values)
        blocks == ListOf([k \in 1..n |-> <<IsoPoint(values[k], weights[k])>>])
        means == ListOf([k \in 1..n |-> block_mean(blocks[k])])
    IN  Expand(PavLoop(blocks, means, 1))

-----------------------------------------------------------------------------
(* Binned calibrator per N (tempo -> expected response seconds) *)

t_min == 60
t_max == 200
N_max == 8
n_bins == 10

ema_lambda == Scale \div 10
anchor_fast_sec == (8 * Scale) \div 10
anchor_slow_sec == (95 * Scale) \div 10
anchor_weight == 50
prior_sec == 5 * Scale

\* int(round(num / den)) for num >= 0, den > 0: Python rounds halves to even
PyRound(num, den) ==
    LET q == num \div den
        r == num % den
    IN  IF 2 * r < den THEN q
        ELSE IF 2 * r > den THEN q + 1
        ELSE IF q % 2 = 0 THEN q ELSE q + 1

Edges(tmin, tmax, n) ==
    { PyRound(tmin * (n - 1) + i * (tmax - tmin), n - 1) : i \in 0..(n - 1) }

BinStat(t, e, c) == [tempo_center |-> t, ema_sec |-> e, count |-> c]

\* TempoCalibrator.__post_init__: the bins of a new calibrator
TempoCalibrator(tmin, tmax, n) ==
    [t \in Edges(tmin, tmax, n) |-> BinStat(t, prior_sec, 0)]

\* The calibrators of the hub: TempoCalibrator(t_min, t_max, n_bins=10)
NewCalibrator == TempoCalibrator(t_min, t_max, n_bins)

\* slip: the bin is the one the tempo falls into, the last center not above
\* it (the lowest center below all of them)
nearest_center_floor(bins, tempo) ==
    LET under == {c \in DOMAIN bins : c <= tempo}
    IN  IF under = {} THEN CHOOSE c \in DOMAIN bins : \A d \in DOMAIN bins : c <= d
        ELSE CHOOSE c \in under : \A d \in under : c >= d

\* min(keys, key=|c - tempo|): the first minimal key in insertion order,
\* which is ascending order of the centers
nearest_center(bins, tempo) ==
    CHOOSE c \in DOMAIN bins :
        \A d \in DOMAIN bins :
            \/ Abs(c - tempo) < Abs(d - tempo)
            \/ Abs(c - tempo) = Abs(d - tempo) /\ c <= d

CalibratorUpdate(bins, tempo, observed_sec) ==
    LET c == nearest_center(bins, tempo)
    IN  [bins EXCEPT ![c] = BinStat(@.tempo_center,
                                    Mul(Scale - ema_lambda, @.ema_sec)
                                        + Mul(ema_lambda, observed_sec),
                                    @.count + 1)]

RECURSIVE SortedSeq(_)
SortedSeq(S) ==
    IF S = {} THEN <<>>
    ELSE LET m == CHOOSE x \in S : \A y \in S : x <= y
         IN  <<m>> \o SortedSeq(S \ {m})

\* The curve as a sequence of <<center, fitted seconds>>
smoothed_curve(bins) ==
    LET centers == SortedSeq(DOMAIN bins)
        n == Len(centers)
        values0 == ListOf([k \in 1..n |-> bins[centers[k]].ema_sec])
        weights0 == ListOf([k \in 1..n |-> Max2(1, bins[centers[k]].count)])
        values1 == [values0 EXCEPT ![1] = Min2(@, anchor_fast_sec)]
        weights1 == [weights0 EXCEPT ![1] = Max2(@, anchor_weight)]
        values2 == [values1 EXCEPT ![n] = Max2(@, anchor_slow_sec)]
        weights2 == [weights1 EXCEPT ![n] = Max2(@, anchor_weight)]
        fitted_secs == fit(values2, weights2)
    IN  ListOf([k \in 1..n |-> <<centers[k], fitted_secs[k]>>])

\* Lines 151-165 of predict_seconds, on the curve of line 150
\* (centers[k] is curve[k][1], secs[k] is curve[k][2])
predict_on_curve(curve, tempo) ==
    LET n == Len(curve)
    IN  IF tempo <= curve[1][1] THEN curve[1][2]
        ELSE IF tempo >= curve[n][1] THEN curve[n][2]
        ELSE LET i == CHOOSE k \in 1..(n - 1) :
                          /\ curve[k][1] <= tempo /\ tempo <= curve[k + 1][1]
                          /\ \A j \in 1..(k - 1) :
                                ~(curve[j][1] <= tempo /\ tempo <= curve[j + 1][1])
                 a == ((tempo - curve[i][1]) * Scale)
                          \div (curve[i + 1][1] - curve[i][1])
             IN  Mul(Scale - a, curve[i][2]) + Mul(a, curve[i + 1][2])

predict_seconds(bins, tempo) == predict_on_curve(smoothed_curve(bins), tempo)

\* smoothed_curve() of the calibrators of the given levels, as a sequence
\* indexed by N = 1..n (empty at the other levels).
\* predict_seconds recomputes the curve on every call; the curve depends on
\* the bins alone, which update() alone changes.  The variable curve_table
\* holds the curve of every calibrator and is recomputed for a calibrator
\* when feedback() updates it (CurveTableFresh), so that next() and the
\* properties read the curves where the code recomputes them.
RECURSIVE CurveTable(_, _, _)
CurveTable(cals, levels, n) ==
    IF n = 0 THEN <<>>
    ELSE Append(CurveTable(cals, levels, n - 1),
                IF \E k \in 1..Len(levels) : levels[k] = n
                THEN smoothed_curve(cals[n]) ELSE <<>>)

-----------------------------------------------------------------------------
(* Drill menu and scoring *)

DrillCandidate(N, tempo, pred_sec, Fe, diff) ==
    [N |-> N, tempo |-> tempo, pred_sec |-> pred_sec, Fe |-> Fe, diff |-> diff]

BoutStats(n, s) == [n_items |-> n, sum_score |-> s]

\* slip: the average without the division by n_items
avg_score_undivided(b) == b.sum_score

avg_score(b) == IF b.n_items > 0 THEN b.sum_score \div b.n_items ELSE 0

p_star == (85 * Scale) \div 100
wN == (6 * Scale) \div 10
max_bpm_step == 8
allow_N_step == 1
menu_size == 6

\* _q_difficulty of a hub whose t_min, t_max and N_max are tmin, tmax, nmax
q_difficulty_of(N, tempo, tmin, tmax, nmax) ==
    LET n == IF nmax > 1 THEN ((N - 1) * Scale) \div (nmax - 1) ELSE 0
        t == norm_tempo(tempo, tmin, tmax)
    IN  clip01(Mul(wN, n) + Mul(Scale - wN, t))

\* _q_difficulty of the hub of the default t_min, t_max and N_max
q_difficulty(N, tempo) == q_difficulty_of(N, tempo, t_min, t_max, N_max)

\* slip: the speed term is the predicted seconds in place of their credit,
\* and Fe is returned as computed
expected_fitness_raw(curves, N, tempo) ==
    LET pred_sec == predict_on_curve(curves[N], tempo)
        q == q_difficulty(N, tempo)
    IN  <<Mul(p_star, Mul(wN, q) + Mul(Scale - wN, pred_sec)), q>>

\* <<Fe, q>>
expected_fitness(curves, N, tempo) ==
    LET pred_sec == predict_on_curve(curves[N], tempo)
        T_clip == speed_credit_from_seconds(pred_sec)
        q == q_difficulty(N, tempo)
        Fe == Mul(p_star, Mul(wN, q) + Mul(Scale - wN, T_clip))
    IN  <<Max2(0, Min2(Scale, Fe)), q>>

\* slip: no rate limit on the tempo
tempos_unlimited(tempos, lastT) == tempos

tempos_with_rate_limits(tempos, lastT) ==
    IF lastT = None THEN tempos
    ELSE LET allowed == SelectSeq(tempos,
                 LAMBDA t : Abs(t - lastT[1]) <= max_bpm_step \/ t = lastT[1])
         IN  IF allowed = <<>> THEN <<lastT[1]>> ELSE allowed

\* slip: the list is left in the order it was built
InsertLast(sorted, x) == Append(sorted, x)

\* list.sort(key=...) and sorted(..., key=...) are stable: insertion keeps
\* the earlier of two equal keys first.  keyed is a sequence of <<key, item>>.
RECURSIVE InsertByKey(_, _)
InsertByKey(sorted, x) ==
    IF sorted = <<>> THEN <<x>>
    ELSE IF sorted[Len(sorted)][1] <= x[1] THEN Append(sorted, x)
    ELSE Append(InsertByKey(SubSeq(sorted, 1, Len(sorted) - 1), x),
                sorted[Len(sorted)])

RECURSIVE SortKeyed(_)
SortKeyed(keyed) ==
    IF keyed = <<>> THEN <<>>
    ELSE InsertByKey(SortKeyed(SubSeq(keyed, 1, Len(keyed) - 1)),
                     keyed[Len(keyed)])

\* The items of keyed in ascending order of their keys
StableSort(keyed) ==
    LET sorted == SortKeyed(keyed)
    IN  ListOf([k \in 1..Len(keyed) |-> sorted[k][2]])

\* slip: no candidate is discarded for its predicted seconds
make_menu_unfiltered(target, levels, tempos, curves, lastT) ==
    LET allowed == tempos_with_rate_limits(tempos, lastT)
        nt == Len(allowed)
        pairs == ListOf([k \in 1..(Len(levels) * nt) |->
                     <<levels[((k - 1) \div nt) + 1],
                       allowed[((k - 1) % nt) + 1]>>])
        cand(pr) == LET ef == expected_fitness(curves, pr[1], pr[2])
                    IN  DrillCandidate(pr[1], pr[2],
                                       predict_on_curve(curves[pr[1]], pr[2]),
                                       ef[1], ef[2])
        menu == ListOf([k \in 1..Len(pairs) |-> cand(pairs[k])])
        ordered == StableSort(ListOf([k \in 1..Len(menu) |->
                                  <<Abs(menu[k].Fe - target), menu[k]>>]))
    IN  SubSeq(ordered, 1, Min2(menu_size, Len(ordered)))

make_menu(target, levels, tempos, curves, lastT) ==
    LET allowed == tempos_with_rate_limits(tempos, lastT)
        nt == Len(allowed)
        pairs == ListOf([k \in 1..(Len(levels) * nt) |->
                     <<levels[((k - 1) \div nt) + 1],
                       allowed[((k - 1) % nt) + 1]>>])
        cand(pr) == LET ef == expected_fitness(curves, pr[1], pr[2])
                    IN  DrillCandidate(pr[1], pr[2],
                                       predict_on_curve(curves[pr[1]], pr[2]),
                                       ef[1], ef[2])
        feasible(pr) == LET pred_sec == predict_on_curve(curves[pr[1]], pr[2])
                        IN  ~(pred_sec < T_MIN_SEC \/ pred_sec > T_MAX_SEC)
        kept == SelectSeq(pairs, feasible)
        menu == ListOf([k \in 1..Len(kept) |-> cand(kept[k])])
        ordered == StableSort(ListOf([k \in 1..Len(menu) |->
                                  <<Abs(menu[k].Fe - target), menu[k]>>]))
    IN  SubSeq(ordered, 1, Min2(menu_size, Len(ordered)))

MinOf(seq) == CHOOSE x \in {seq[k] : k \in 1..Len(seq)} :
                  \A k \in 1..Len(seq) : x <= seq[k]

\* The outcome of _sample_from_menu for the draw r of random.random():
\* [raised |-> FALSE, cand |-> the candidate returned], or raised |-> TRUE
\* when the call does not return
Returned(c) == [raised |-> FALSE, cand |-> Some(c)]
Raised == [raised |-> TRUE, cand |-> None]

\* Line 353 calls DrillCandidate with four positional arguments (N, tempo,
\* pred_sec and the <<Fe, q>> pair): the dataclass has five required fields,
\* so the call raises TypeError after its arguments were evaluated
ForcedCandidate(N, tempo, pred_sec, fe_q) == Raised

\* slip: easier and harder are exchanged
pick_from_menu_swapped(menu, target, r) ==
    LET menu_sorted == StableSort(ListOf([k \in 1..Len(menu) |->
                                      <<menu[k].Fe, menu[k]>>]))
        len == Len(menu_sorted)
        below == {k \in 0..len : \A j \in 1..k : menu_sorted[j].Fe < target}
        idx == CHOOSE k \in below : \A j \in below : j <= k
        center == Min2(idx, len - 1) + 1
        easier == menu_sorted[Min2(len, center + 1)]
        harder == menu_sorted[Max2(1, center - 1)]
    IN  IF r < (7 * Scale) \div 10 THEN menu_sorted[center]
        ELSE IF r < (9 * Scale) \div 10 THEN easier
        ELSE harder

\* Lines 334-350: the 70/20/10 choice around the center of a non-empty menu
pick_from_menu(menu, target, r) ==
    LET menu_sorted == StableSort(ListOf([k \in 1..Len(menu) |->
                                      <<menu[k].Fe, menu[k]>>]))
        len == Len(menu_sorted)
        \* idx counts the leading candidates with Fe < target
        below == {k \in 0..len : \A j \in 1..k : menu_sorted[j].Fe < target}
        idx == CHOOSE k \in below : \A j \in below : j <= k
        center == Min2(idx, len - 1) + 1
        easier == menu_sorted[Max2(1, center - 1)]
        harder == menu_sorted[Min2(len, center + 1)]
    IN  IF r < (7 * Scale) \div 10 THEN menu_sorted[center]
        ELSE IF r < (9 * Scale) \div 10 THEN easier
        ELSE harder

\* An outcome with the branch that produced it: "fallback" (lines 326-332),
\* "forced" (the N step limiter, lines 352-353) or "menu" (the pick itself)
Via(path, out) == [raised |-> out.raised, cand |-> out.cand, path |-> path]

sample_from_menu(menu, target, levels, tempos, curves, lastN, lastT, r) ==
    IF menu = <<>>
    THEN IF lastT = None /\ tempos = <<>>
         THEN \* line 329: min() of an empty list raises ValueError
              Via("fallback", Raised)
         ELSE LET N == IF lastN # None THEN lastN[1] ELSE MinOf(levels)
                  tempo == IF lastT # None THEN lastT[1] ELSE MinOf(tempos)
                  pred == predict_on_curve(curves[N], tempo)
                  ef == expected_fitness(curves, N, tempo)
              IN  Via("fallback",
                      Returned(DrillCandidate(N, tempo, pred, ef[1], ef[2])))
    ELSE LET pick == pick_from_menu(menu, target, r)
         IN  IF lastN # None /\ Abs(pick.N - lastN[1]) > allow_N_step
             THEN Via("forced",
                      ForcedCandidate(lastN[1], pick.tempo,
                          predict_on_curve(curves[lastN[1]], pick.tempo),
                          expected_fitness(curves, lastN[1], pick.tempo)))
             ELSE Via("menu", Returned(pick))

\* slip: the score of an item ignores correct
per_item_score_any(correct, T_clip) == T_clip

\* Line 271
per_item_score(correct, T_clip) == Mul(IF correct THEN Scale ELSE 0, T_clip)

\* slip: the score is assigned where it is accumulated
add_item_assigning(b, score) == BoutStats(b.n_items + 1, score)

\* Lines 272-273: n_items += 1, sum_score += per_item_score
add_item(b, score) == BoutStats(b.n_items + 1, b.sum_score + score)

-----------------------------------------------------------------------------
(* Inputs of the model *)

\* Constructor arguments: the hub of the docstring and of the end-to-end
\* example, and a hub of one level and one tempo
Configs ==
    { [F |-> (5 * Scale) \div 10, tempos |-> <<72, 84, 96>>,
       N_set |-> <<1, 2, 3, 4>>],
      [F |-> (5 * Scale) \div 10, tempos |-> <<200>>, N_set |-> <<1>>] }
\* Arguments <<F, tempos>> of new_bout: none, those of the demo stub, and an
\* empty tempo list
BoutArgs == {<<None, None>>, <<Some((2 * Scale) \div 10), Some(<<80, 88, 96>>)>>,
             <<None, Some(<<>>)>>}
\* observed seconds: the end-to-end example's 1.5 s and a very long answer
ObsSet == {(15 * Scale) \div 10, 2500 * Scale}
\* draws of random.random(): below 0.7, from 0.7 and from 0.9
RSet == {0, (7 * Scale) \div 10, (9 * Scale) \div 10}

\* What the last call was and did: its name, its arguments (those of
\* feedback), whether it raised, the BoutStats it returned, and the branch
\* of _sample_from_menu that next() took
Result(op, args, raised, stats, path) ==
    [op |-> op, args |-> args, raised |-> raised, stats |-> stats,
     path |-> path]

-----------------------------------------------------------------------------
(* DrillHub *)

\* DrillHub.__init__ with the arguments cfg; nothing was called yet
Constructed(cfg) ==
    /\ F = cfg.F
    /\ N_set = cfg.N_set
    /\ active_tempos = cfg.tempos
    /\ calibrators = [N \in 1..N_max |-> NewCalibrator]
    /\ last_candidate = None
    /\ bout = BoutStats(0, 0)
    /\ last_N = None
    /\ last_tempo = None
    /\ ret = Result("init", None, FALSE, None, None)
    /\ pending = FALSE
    /\ strict = TRUE
    /\ rounds = 0
    /\ credit_sum = 0
    /\ fb_total = 0
    /\ \E cold \in {smoothed_curve(NewCalibrator)} :
          curve_table = [N \in 1..N_max |-> cold]

Init ==
    /\ \E cfg \in Configs : Constructed(cfg)
    /\ watch = None
    /\ fit_values = <<>>
    /\ fit_weights = <<>>
    /\ fitted = None
    /\ cal_bins = NewCalibrator
    /\ cal_updates = 0
    /\ call_args = None
    /\ call_result = None

\* The watch of a bout with calls next() calls, one of which returned (offered)
Watching(calls, offered) == Some([calls |-> calls, offered |-> offered])

\* slip: new_bout also replaces the calibrators by new ones
new_bout_resetting(Fopt, tempos_opt) ==
    /\ F' = IF Fopt # None THEN Fopt[1] ELSE F
    /\ active_tempos' = IF tempos_opt # None THEN tempos_opt[1] ELSE active_tempos
    /\ bout' = BoutStats(0, 0)
    /\ last_candidate' = None
    /\ last_N' = None
    /\ last_tempo' = None
    /\ calibrators' = [N \in 1..N_max |-> NewCalibrator]
    /\ \E cold \in {smoothed_curve(NewCalibrator)} :
          curve_table' = [N \in 1..N_max |-> cold]
    /\ UNCHANGED N_set
    /\ ret' = Result("new_bout", None, FALSE, None, None)
    /\ pending' = FALSE
    /\ strict' = TRUE
    /\ rounds' = 0
    /\ credit_sum' = 0
    /\ UNCHANGED fb_total
    /\ watch' = IF watch = None THEN None ELSE Watching(0, FALSE)
    /\ UNCHANGED <<fit_vars, cal_vars, call_vars>>

\* slip: new_bout leaves the last offered candidate, N and tempo in place
new_bout_keeping(Fopt, tempos_opt) ==
    /\ F' = IF Fopt # None THEN Fopt[1] ELSE F
    /\ active_tempos' = IF tempos_opt # None THEN tempos_opt[1] ELSE active_tempos
    /\ bout' = BoutStats(0, 0)
    /\ UNCHANGED <<N_set, calibrators, last_candidate, last_N, last_tempo>>
    /\ ret' = Result("new_bout", None, FALSE, None, None)
    /\ pending' = FALSE
    /\ strict' = TRUE
    /\ rounds' = 0
    /\ credit_sum' = 0
    /\ UNCHANGED <<fb_total, curve_table>>
    /\ watch' = IF watch = None THEN None ELSE Watching(0, FALSE)
    /\ UNCHANGED <<fit_vars, cal_vars, call_vars>>

\* DrillHub.new_bout(F, tempos); either argument may be None
new_bout(Fopt, tempos_opt) ==
    /\ F' = IF Fopt # None THEN Fopt[1] ELSE F
    /\ active_tempos' = IF tempos_opt # None THEN tempos_opt[1] ELSE active_tempos
    /\ bout' = BoutStats(0, 0)
    /\ last_candidate' = None
    /\ last_N' = None
    /\ last_tempo' = None
    /\ UNCHANGED <<N_set, calibrators>>
    /\ ret' = Result("new_bout", None, FALSE, None, None)
    /\ pending' = FALSE
    /\ strict' = TRUE
    /\ rounds' = 0
    /\ credit_sum' = 0
    /\ UNCHANGED <<fb_total, curve_table>>
    /\ watch' = IF watch = None THEN None ELSE Watching(0, FALSE)
    /\ UNCHANGED <<fit_vars, cal_vars, call_vars>>

\* DrillHub.next(); r is the draw of random.random() in _sample_from_menu.
\* The values computed on the way are bound by \E over a one-element set.
next ==
    \E menu \in {make_menu(F, N_set, active_tempos, curve_table, last_tempo)} :
    \E r \in RSet :
    \E out \in {sample_from_menu(menu, F, N_set, active_tempos, curve_table,
                                 last_N, last_tempo, r)} :
        /\ IF out.raised
           THEN UNCHANGED <<last_candidate, last_N, last_tempo>>
           ELSE /\ last_candidate' = out.cand
                /\ last_N' = Some(out.cand[1].N)
                /\ last_tempo' = Some(out.cand[1].tempo)
        /\ UNCHANGED <<F, N_set, active_tempos, calibrators, bout>>
        /\ ret' = Result("next", None, out.raised, None, Some(out.path))
        /\ pending' = TRUE
        /\ strict' = (strict /\ ~pending /\ ~out.raised)
        /\ UNCHANGED <<rounds, credit_sum, fb_total, curve_table>>
        /\ watch' = IF watch = None THEN None
                    ELSE Watching(Min2(watch[1].calls + 1, MaxFeedback),
                                  watch[1].offered \/ ~out.raised)
        /\ UNCHANGED <<fit_vars, cal_vars, call_vars>>

\* DrillHub.feedback(correct, observed_sec)
feedback(correct, observed_sec) ==
    /\ last_candidate = None \/ fb_total < MaxFeedback
    /\ IF last_candidate = None
       THEN UNCHANGED <<calibrators, bout, fb_total, curve_table>>
       ELSE LET N == last_candidate[1].N
                T_clip == speed_credit_from_seconds(observed_sec)
            IN  /\ \E bins \in {CalibratorUpdate(calibrators[N],
                                                 last_candidate[1].tempo,
                                                 observed_sec)} :
                      /\ calibrators' = [calibrators EXCEPT ![N] = bins]
                      /\ \E curve \in {smoothed_curve(bins)} :
                            curve_table' = [curve_table EXCEPT ![N] = curve]
                /\ bout' = add_item(bout, per_item_score(correct, T_clip))
                /\ fb_total' = fb_total + 1
    /\ UNCHANGED <<F, N_set, active_tempos, last_candidate, last_N, last_tempo>>
    /\ ret' = Result("feedback",
                     Some([correct |-> correct, observed_sec |-> observed_sec]),
                     FALSE, None, None)
    /\ pending' = FALSE
    /\ strict' = (strict /\ pending /\ correct)
    /\ rounds' = IF strict' THEN rounds + 1 ELSE 0
    /\ credit_sum' = IF strict'
                     THEN credit_sum + speed_credit_from_seconds(observed_sec)
                     ELSE 0
    /\ UNCHANGED watch
    /\ UNCHANGED <<fit_vars, cal_vars, call_vars>>

\* DrillHub.update(): returns the BoutStats object
update ==
    /\ ret' = Result("update", None, FALSE,
                     Some([n_items |-> bout.n_items,
                           sum_score |-> bout.sum_score,
                           avg_score |-> avg_score(bout)]),
                     None)
    /\ UNCHANGED hub_vars
    /\ UNCHANGED obs_vars
    /\ UNCHANGED <<fit_vars, cal_vars, call_vars>>

Next ==
    \/ \E args \in BoutArgs : new_bout(args[1], args[2])
    \/ next
    \/ \E correct \in BOOLEAN, observed_sec \in ObsSet :
          feedback(correct, observed_sec)
    \/ update

Spec == Init /\ [][Next]_vars

\* The same scheduler with its bouts watched
InitWatched ==
    /\ \E cfg \in Configs : Constructed(cfg)
    /\ watch = Watching(0, FALSE)
    /\ fit_values = <<>>
    /\ fit_weights = <<>>
    /\ fitted = None
    /\ cal_bins = NewCalibrator
    /\ cal_updates = 0
    /\ call_args = None
    /\ call_result = None

SpecWatched == InitWatched /\ [][Next]_vars

-----------------------------------------------------------------------------
(* IsotonicNonIncreasing.fit called on its own *)

FitValues == {0, 1 * Scale, 2 * Scale}
FitWeights == {1, 2}

SeqsUpTo(S, n) == UNION {[1..k -> S] : k \in 1..n}

DefaultConfig ==
    [F |-> (5 * Scale) \div 10, tempos |-> <<72, 84, 96>>,
     N_set |-> <<1, 2, 3, 4>>]

InitFit ==
    /\ Constructed(DefaultConfig)
    /\ watch = None
    /\ fit_values \in SeqsUpTo(FitValues, MaxFitLen)
    /\ fit_weights \in [1..Len(fit_values) -> FitWeights]
    /\ fitted = None
    /\ cal_bins = NewCalibrator
    /\ cal_updates = 0
    /\ call_args = None
    /\ call_result = None

FitCall ==
    /\ fitted = None
    /\ fitted' = Some(fit(fit_values, fit_weights))
    /\ UNCHANGED <<fit_values, fit_weights>>
    /\ UNCHANGED <<hub_vars, obs_vars, ret, cal_vars, call_vars>>

NextFit == FitCall

SpecFit == InitFit /\ [][NextFit]_vars

\* fit called with weights that may be zero
FitWeightsZero == {0, 1, 2}

InitFitZero ==
    /\ Constructed(DefaultConfig)
    /\ watch = None
    /\ fit_values \in SeqsUpTo(FitValues, MaxZeroFitLen)
    /\ fit_weights \in [1..Len(fit_values) -> FitWeightsZero]
    /\ fitted = None
    /\ cal_bins = NewCalibrator
    /\ cal_updates = 0
    /\ call_args = None
    /\ call_result = None

SpecFitZero == InitFitZero /\ [][NextFit]_vars

-----------------------------------------------------------------------------
(* A TempoCalibrator on its own *)

CalBinCounts == {2, 4, 10}
CalObsSet == {Scale \div 2, (95 * Scale) \div 10, 2500 * Scale}
\* tempos given to update: every center, one below the range, one between
CalTempos(bins) == DOMAIN bins \cup {t_min - 5, 96}

InitCal ==
    /\ Constructed(DefaultConfig)
    /\ watch = None
    /\ fit_values = <<>>
    /\ fit_weights = <<>>
    /\ fitted = None
    /\ \E n \in CalBinCounts : cal_bins = TempoCalibrator(t_min, t_max, n)
    /\ cal_updates = 0
    /\ call_args = None
    /\ call_result = None

\* TempoCalibrator.update(tempo, observed_sec)
CalUpdate(tempo, observed_sec) ==
    /\ cal_updates < MaxCalUpdates
    /\ cal_bins' = CalibratorUpdate(cal_bins, tempo, observed_sec)
    /\ cal_updates' = cal_updates + 1
    /\ UNCHANGED <<hub_vars, obs_vars, ret, fit_vars, call_vars>>

NextCal ==
    \E tempo \in CalTempos(cal_bins), observed_sec \in CalObsSet :
        CalUpdate(tempo, observed_sec)

SpecCal == InitCal /\ [][NextCal]_vars

\* A TempoCalibrator(t_min, t_max, n_bins) of any t_min < t_max and
\* n_bins >= 2: ranges narrower and wider than the number of bins
CalRangeArgs == [t_min : {60}, t_max : {61, 62, 69, 200}, n_bins : {2, 4, 10}]

InitCalRange ==
    /\ Constructed(DefaultConfig)
    /\ watch = None
    /\ fit_values = <<>>
    /\ fit_weights = <<>>
    /\ fitted = None
    /\ call_args \in CalRangeArgs
    /\ cal_bins = TempoCalibrator(call_args.t_min, call_args.t_max,
                                  call_args.n_bins)
    /\ cal_updates = 0
    /\ call_result = None

SpecCalRange == InitCalRange /\ [][NextCal]_vars

-----------------------------------------------------------------------------
(* A TempoCalibrator updated at its two end bins only *)

LowestCenter(bins) == CHOOSE c \in DOMAIN bins : \A d \in DOMAIN bins : c <= d
HighestCenter(bins) == CHOOSE c \in DOMAIN bins : \A d \in DOMAIN bins : c >= d

\* observations: 0.5 s at the lowest tempo, 9.5 s at the highest
EndFastSec == Scale \div 2
EndSlowSec == (95 * Scale) \div 10

\* TempoCalibrator.update(lowest center, 0.5)
UpdateLowest ==
    /\ cal_bins[LowestCenter(cal_bins)].count < MaxEndUpdates
    /\ cal_bins' = CalibratorUpdate(cal_bins, LowestCenter(cal_bins), EndFastSec)
    /\ cal_updates' = cal_updates + 1
    /\ UNCHANGED <<hub_vars, obs_vars, ret, fit_vars, call_vars>>

\* TempoCalibrator.update(highest center, 9.5)
UpdateHighest ==
    /\ cal_bins[HighestCenter(cal_bins)].count < MaxEndUpdates
    /\ cal_bins' = CalibratorUpdate(cal_bins, HighestCenter(cal_bins), EndSlowSec)
    /\ cal_updates' = cal_updates + 1
    /\ UNCHANGED <<hub_vars, obs_vars, ret, fit_vars, call_vars>>

NextEnds == UpdateLowest \/ UpdateHighest

SpecEnds == InitCal /\ [][NextEnds]_vars

-----------------------------------------------------------------------------
(* speed_credit_from_seconds called on its own, on two arguments *)

\* seconds: negative, zero, around T_MIN_SEC, between, around T_MAX_SEC, far above
CreditSecs ==
    {0 - Scale, 0, T_MIN_SEC - 1, T_MIN_SEC, T_MIN_SEC + 1, (15 * Scale) \div 10,
     3 * Scale, 5 * Scale, 7 * Scale, T_MAX_SEC - 1, T_MAX_SEC, T_MAX_SEC + 1,
     12 * Scale, 2500 * Scale}

InitCredit ==
    /\ Constructed(DefaultConfig)
    /\ watch = None
    /\ fit_values = <<>>
    /\ fit_weights = <<>>
    /\ fitted = None
    /\ cal_bins = NewCalibrator
    /\ cal_updates = 0
    /\ call_args \in CreditSecs \X CreditSecs
    /\ call_result = None

\* speed_credit_from_seconds(call_args[1]) and speed_credit_from_seconds(call_args[2])
CreditCall ==
    /\ call_result = None
    /\ call_result' = Some(<<speed_credit_from_seconds(call_args[1]),
                             speed_credit_from_seconds(call_args[2])>>)
    /\ UNCHANGED call_args
    /\ UNCHANGED <<hub_vars, obs_vars, ret, fit_vars, cal_vars>>

NextCredit == CreditCall

SpecCredit == InitCredit /\ [][NextCredit]_vars

-----------------------------------------------------------------------------
(* The constructors called on their own, with any configuration *)

\* t_min, t_max and N_max of DrillHub(F=0.5, t_min=, t_max=, N_max=);
\* t_min, t_max and n_bins of TempoCalibrator(t_min=, t_max=, n_bins=)
CtorArgs ==
    [t_min : {60, 100, 200}, t_max : {60, 100, 200}, N_max : {0 - 1, 0, 1, 8},
     n_bins : {0 - 1, 0, 1, 2, 10}]

\* What a constructor did: raised, or made an object with these calibration
\* bins (of a hub: the bins of each of its calibrators)
CtorResult(of, raised, made) == [of |-> of, raised |-> raised, made |-> made]

InitCtor ==
    /\ Constructed(DefaultConfig)
    /\ watch = None
    /\ fit_values = <<>>
    /\ fit_weights = <<>>
    /\ fitted = None
    /\ cal_bins = NewCalibrator
    /\ cal_updates = 0
    /\ call_args \in CtorArgs
    /\ call_result = None

\* DrillHub.__init__: the arguments are stored after int(), one calibrator
\* of 10 bins is made for each N in range(1, N_max + 1); nothing is tested
HubInit ==
    /\ call_result = None
    /\ call_result' =
          Some(CtorResult("DrillHub", FALSE,
                          [N \in 1..call_args.N_max |->
                              TempoCalibrator(call_args.t_min, call_args.t_max,
                                              n_bins)]))
    /\ UNCHANGED call_args
    /\ UNCHANGED <<hub_vars, obs_vars, ret, fit_vars, cal_vars>>

\* TempoCalibrator.__post_init__: range(n_bins) is empty for n_bins <= 0, and
\* for n_bins = 1 line 113 divides by n_bins - 1 = 0 (ZeroDivisionError)
CalibratorInit ==
    /\ call_result = None
    /\ call_result' =
          IF call_args.n_bins = 1
          THEN Some(CtorResult("TempoCalibrator", TRUE, None))
          ELSE Some(CtorResult("TempoCalibrator", FALSE,
                               TempoCalibrator(call_args.t_min, call_args.t_max,
                                               call_args.n_bins)))
    /\ UNCHANGED call_args
    /\ UNCHANGED <<hub_vars, obs_vars, ret, fit_vars, cal_vars>>

NextCtor == HubInit \/ CalibratorInit

SpecCtor == InitCtor /\ [][NextCtor]_vars

-----------------------------------------------------------------------------
(* _q_difficulty called on its own, on a hub of any t_min <= t_max and N_max *)

\* N and tempo of the call: levels from the first to the last, tempos below,
\* inside and above the range; t_min, t_max and N_max of the hub
DifficultyArgs ==
    [N : {1, 4, 8}, tempo : {0, 72, 130, 300}, t_min : {60, 100},
     t_max : {100, 200}, N_max : {1, 8}]

\* What the call did: raised, or returned q
DifficultyResult(raised, q) == [raised |-> raised, q |-> q]

InitDifficulty ==
    /\ Constructed(DefaultConfig)
    /\ watch = None
    /\ fit_values = <<>>
    /\ fit_weights = <<>>
    /\ fitted = None
    /\ cal_bins = NewCalibrator
    /\ cal_updates = 0
    /\ call_args \in DifficultyArgs
    /\ call_result = None

\* DrillHub._q_difficulty(N, tempo): line 19 divides by t_max - t_min
\* (ZeroDivisionError when they are equal); line 284 tests N_max > 1 first
DifficultyCall ==
    /\ call_result = None
    /\ call_result' =
          IF call_args.t_max = call_args.t_min
          THEN Some(DifficultyResult(TRUE, None))
          ELSE Some(DifficultyResult(FALSE,
                        Some(q_difficulty_of(call_args.N, call_args.tempo,
                                             call_args.t_min, call_args.t_max,
                                             call_args.N_max))))
    /\ UNCHANGED call_args
    /\ UNCHANGED <<hub_vars, obs_vars, ret, fit_vars, cal_vars>>

NextDifficulty == DifficultyCall

SpecDifficulty == InitDifficulty /\ [][NextDifficulty]_vars

-----------------------------------------------------------------------------
(* Properties *)

\* curve_table holds what smoothed_curve() returns for every calibrator
CurveTableFresh ==
    \A N \in 1..N_max : curve_table[N] = smoothed_curve(calibrators[N])

NonIncreasing(seq) == \A i \in 1..(Len(seq) - 1) : seq[i] >= seq[i + 1]

Attributed == last_candidate # None

HasObservations == \E N \in 1..N_max : \E c \in DOMAIN calibrators[N] :
                       calibrators[N][c].count > 0

\* C1: every call of next() returns a DrillCandidate and never raises, on a
\* cold scheduler, after any calls of new_bout, next, feedback and update,
\* and when the menu is empty.
C1_NextNeverRaises == ~(ret.op = "next" /\ ret.raised)

\* C2: the output of IsotonicNonIncreasing.fit is non-increasing for every
\* input of values and positive weights: fit[i] >= fit[i+1].
C2_FitNonIncreasing == fitted # None => NonIncreasing(fitted[1])

\* C3: in every state of a calibrator of at least two bins reached by
\* updates with observed seconds > 0, the fitted curve smoothed_curve() is
\* non-increasing in ascending order of tempo.
C3_CurveNonIncreasing ==
    LET curve == smoothed_curve(cal_bins)
    IN  NonIncreasing([k \in 1..Len(curve) |-> curve[k][2]])

\* C4: tempo hysteresis.  When next() returns a candidate and the bout has a
\* last offered tempo, the new tempo is within max_bpm_step of it; when no
\* tempo of the active set is within max_bpm_step, the new tempo equals it.
C4_TempoHysteresis ==
    [][(ret'.op = "next" /\ ~ret'.raised /\ last_tempo # None) =>
          /\ Abs(last_tempo'[1] - last_tempo[1]) <= max_bpm_step
          /\ (\A k \in 1..Len(active_tempos) :
                  Abs(active_tempos[k] - last_tempo[1]) > max_bpm_step)
                => last_tempo'[1] = last_tempo[1]]_vars

\* a second candidate of a bout was returned, after feedback on the first
C4_Witness ==
    /\ ret.op = "next" /\ ~ret.raised
    /\ bout.n_items > 0
    /\ last_tempo # None

\* C5: N rate limit.  A call of next() on a non-empty menu in a bout with a
\* last offered N returns a well-formed candidate: the pick itself when its N
\* is within allow_N_step of the last N, and otherwise the candidate of the
\* last N and the picked tempo with predicted seconds, expected fitness and
\* structural difficulty of that pair; so the N of consecutive candidates
\* differs by at most allow_N_step.
C5_Limited(curves, menu, r) ==
    LET pick == pick_from_menu(menu, F, r)
    IN  IF Abs(pick.N - last_N[1]) > allow_N_step
        THEN LET ef == expected_fitness(curves, last_N[1], pick.tempo)
             IN  DrillCandidate(last_N[1], pick.tempo,
                                predict_on_curve(curves[last_N[1]], pick.tempo),
                                ef[1], ef[2])
        ELSE pick

C5_NRateLimit ==
    [][(ret'.op = "next" /\ last_N # None) =>
          LET curves == CurveTable(calibrators, N_set, N_max)
              menu == make_menu(F, N_set, active_tempos, curves, last_tempo)
          IN  menu # <<>> =>
                /\ ~ret'.raised
                /\ \E r \in RSet :
                      last_candidate' = Some(C5_Limited(curves, menu, r))
                /\ Abs(last_N'[1] - last_N[1]) <= allow_N_step]_vars

\* C6: a feedback call made when next() was not called since the previous
\* feedback call leaves the bout statistics and every calibration bin
\* unchanged.
C6_OneFeedbackPerNext ==
    [][(ret'.op = "feedback" /\ ~pending) =>
          (bout' = bout /\ calibrators' = calibrators)]_vars

\* C7: an attributed feedback(correct=False, observed_seconds) adds exactly 0
\* to the cumulative score and 1 to item_count, whatever the seconds.
C7_WrongAnswerScoresZero ==
    [][(ret'.op = "feedback" /\ ~ret'.args[1].correct /\ Attributed) =>
          /\ bout'.sum_score = bout.sum_score
          /\ bout'.n_items = bout.n_items + 1]_vars

\* the one attributed feedback was feedback(False, 1.5): its seconds, of
\* credit 0.9375, are in the bin and the score is 0
C7_Witness ==
    /\ ret.op = "feedback" /\ ~ret.args[1].correct
    /\ ret.args[1].observed_sec = (15 * Scale) \div 10
    /\ bout = BoutStats(1, 0)
    /\ fb_total = 1
    /\ speed_credit_from_seconds((15 * Scale) \div 10) > 0
    /\ \E c \in DOMAIN calibrators[last_candidate[1].N] :
          /\ calibrators[last_candidate[1].N][c].count = 1
          /\ calibrators[last_candidate[1].N][c].ema_sec
                = Mul(Scale - ema_lambda, prior_sec)
                    + Mul(ema_lambda, (15 * Scale) \div 10)

\* C8: in a fresh bout, after k rounds of next() returning a candidate and
\* then feedback(True, s_i), item_count is k and the cumulative score is the sum of credit(s_i), and
\* update() reports item_count k and average_score (sum of credit(s_i)) / k.
C8_RoundsScore ==
    (strict /\ ~pending /\ rounds > 0) =>
        /\ bout.n_items = rounds
        /\ bout.sum_score = credit_sum
        /\ ret.op = "update" =>
              /\ ret.stats[1].n_items = rounds
              /\ ret.stats[1].avg_score = credit_sum \div rounds

\* update() after the one round next(), feedback(True, 1.5)
C8_Witness ==
    /\ ret.op = "update"
    /\ strict /\ ~pending /\ rounds = 1
    /\ ret.stats[1].n_items = 1
    /\ ret.stats[1].avg_score = speed_credit_from_seconds((15 * Scale) \div 10)
    /\ ret.stats[1].avg_score > 0

\* C9: new_bout sets the bout statistics to zero and the last offered
\* candidate, the last N and the last tempo to none, and leaves the bins of
\* every calibrator unchanged.
C9_NewBoutFrame ==
    [][ret'.op = "new_bout" =>
          /\ bout' = BoutStats(0, 0)
          /\ last_candidate' = None
          /\ last_N' = None
          /\ last_tempo' = None
          /\ calibrators' = calibrators]_vars

\* new_bout was called on a hub whose calibrators hold observations
C9_Witness ==
    /\ ret.op = "new_bout"
    /\ HasObservations
    /\ bout = BoutStats(0, 0) /\ last_candidate = None

\* C10: update() changes no state of the scheduler and returns item_count
\* and average_score = cumulative_score / item_count, or 0 without items.
C10_UpdateFrame ==
    [][ret'.op = "update" =>
          /\ UNCHANGED hub_vars
          /\ ret'.stats # None
          /\ ret'.stats[1].n_items = bout.n_items
          /\ ret'.stats[1].avg_score =
                IF bout.n_items = 0 THEN 0
                ELSE bout.sum_score \div bout.n_items]_vars

\* update() returned the average of two items of different scores
C10_Witness ==
    /\ ret.op = "update"
    /\ ret.stats[1].n_items = 2
    /\ bout.sum_score > 0
    /\ ret.stats[1].avg_score < bout.sum_score
    /\ last_candidate # None

-----------------------------------------------------------------------------
(* Properties of the isotonic fit *)

\* Reference pool-adjacent-violators fit: the scan compares the means of the
\* blocks as they are, pools a violating pair and steps back
RECURSIVE RefPavLoop(_, _)
RefPavLoop(blocks, i) ==
    IF i < Len(blocks)
    THEN IF block_mean(blocks[i]) < block_mean(blocks[i + 1])
         THEN RefPavLoop(PoolBlocks(blocks, i), IF i > 1 THEN i - 1 ELSE i)
         ELSE RefPavLoop(blocks, i + 1)
    ELSE blocks

ReferenceFit(values, weights) ==
    Expand(RefPavLoop(ListOf([k \in 1..Len(values) |->
                                 <<IsoPoint(values[k], weights[k])>>]), 1))

\* C11: for every input of values with positive weights, the output of fit
\* has the length of the input and is the weighted-least-squares-optimal
\* non-increasing sequence, the result of a reference PAV fit on the input.
C11_FitOptimal ==
    fitted # None =>
        /\ Len(fitted[1]) = Len(fit_values)
        /\ fitted[1] = ReferenceFit(fit_values, fit_weights)

\* C12: fit returns an already non-increasing sequence unchanged, with any
\* positive weights, and fit(fit(v, w), w) = fit(v, w) for every input.
C12_FitIdempotent ==
    fitted # None =>
        /\ NonIncreasing(fit_values) => fitted[1] = fit_values
        /\ fit(fitted[1], fit_weights) = fitted[1]

-----------------------------------------------------------------------------
(* Properties of the scheduler: fitness, menu and selection *)

\* Tempos asked of expected_fitness: below the lowest bin center, at a
\* center, between centers, and above the highest
ProbeTempos == {t_min - 60, 91, 130, t_max + 100}

\* C13: in every reachable state of the scheduler, expected_fitness(N, tempo)
\* returns Fe with 0 <= Fe <= 1 for every level N in 1..N_max and every
\* tempo, and every candidate returned by next() carries such an Fe.
C13_FitnessInUnitRange ==
    /\ \A N \in 1..N_max : \A tempo \in ProbeTempos :
          \A Fe \in {expected_fitness(curve_table, N, tempo)[1]} :
              0 <= Fe /\ Fe <= Scale
    /\ last_candidate # None =>
          (0 <= last_candidate[1].Fe /\ last_candidate[1].Fe <= Scale)

\* next() returned a candidate from calibrators that hold observations, one
\* of them with predicted seconds beyond T_MAX_SEC
C13_Witness ==
    /\ ret.op = "next" /\ ~ret.raised
    /\ last_candidate # None
    /\ last_candidate[1].Fe > 0 /\ last_candidate[1].Fe < Scale
    /\ \E N \in 1..N_max :
          predict_seconds(calibrators[N], 91) > T_MAX_SEC

-----------------------------------------------------------------------------
(* Properties of the calibrator and of the speed credit *)

\* How near "approaching" is: half a second
EndTolerance == Scale \div 2

\* The observations have been absorbed: the EMA of the lowest bin is near
\* 0.5 s and the EMA of the highest bin is near 9.5 s
EndsSettled ==
    /\ Abs(cal_bins[LowestCenter(cal_bins)].ema_sec - EndFastSec) <= EndTolerance
    /\ Abs(cal_bins[HighestCenter(cal_bins)].ema_sec - EndSlowSec) <= EndTolerance

\* C14: a calibrator updated repeatedly at its lowest-tempo bin with 0.5 s
\* and at its highest-tempo bin with 9.5 s keeps a non-increasing fitted
\* curve, and once the observations are absorbed it predicts nearly 0.5 s
\* at the lowest tempo and nearly 9.5 s at the highest.
C14_ExtremesConverge ==
    \A curve \in {smoothed_curve(cal_bins)} :
        /\ NonIncreasing([k \in 1..Len(curve) |-> curve[k][2]])
        /\ EndsSettled =>
              /\ Abs(predict_on_curve(curve, LowestCenter(cal_bins)) - EndFastSec)
                    <= EndTolerance
              /\ Abs(predict_on_curve(curve, HighestCenter(cal_bins)) - EndSlowSec)
                    <= EndTolerance

\* C15: with T_MIN = 1.0 and T_MAX = 9.0, credit(seconds) is 1.0 for
\* seconds <= T_MIN, 0.0 for seconds >= T_MAX and
\* 1 - (seconds - T_MIN) / (T_MAX - T_MIN) in between (here to the fixed-point
\* digit); credit(1.0) = 1.0, credit(9.0) = 0.0, credit(5.0) = 0.5; the
\* result is in [0, 1] and non-increasing in seconds.
C15_CreditPiecewiseLinear ==
    call_result # None =>
        /\ \A k \in 1..2 :
              LET sec == call_args[k]
                  c == call_result[1][k]
              IN  /\ sec <= 1 * Scale => c = Scale
                  /\ sec >= 9 * Scale => c = 0
                  /\ (1 * Scale < sec /\ sec < 9 * Scale) =>
                        /\ (Scale - c) * 8 <= sec - 1 * Scale
                        /\ sec - 1 * Scale < (Scale - c + 1) * 8
                  /\ sec = 5 * Scale => c = Scale \div 2
                  /\ 0 <= c /\ c <= Scale
        /\ call_args[1] <= call_args[2] => call_result[1][1] >= call_result[1][2]

\* credit(5.0) = 0.5 and credit(12.0) = 0.0 were computed
C15_Witness ==
    /\ call_args = <<5 * Scale, 12 * Scale>>
    /\ call_result = Some(<<Scale \div 2, 0>>)

\* C16: constructing a scheduler or a calibrator with an invalid
\* configuration (t_min >= t_max, N_max < 1, a negative bin count) fails at
\* construction time: no such instance is created.
C16_InvalidConfigFailsFast ==
    call_result # None =>
        /\ (/\ call_result[1].of = "DrillHub"
            /\ (call_args.t_min >= call_args.t_max \/ call_args.N_max < 1))
              => call_result[1].raised
        /\ (/\ call_result[1].of = "TempoCalibrator"
            /\ (call_args.t_min >= call_args.t_max \/ call_args.n_bins < 0))
              => call_result[1].raised

-----------------------------------------------------------------------------
(* Properties of the menu and of the selection *)

Feasible(pred_sec) == T_MIN_SEC <= pred_sec /\ pred_sec <= T_MAX_SEC

\* C17: every candidate that next() returns from a non-empty menu without
\* the N rate-limit replacement has predicted seconds within
\* [T_MIN_SEC, T_MAX_SEC]; a candidate with predicted seconds outside is
\* returned only by the empty-menu fallback or the forced-N replacement.
C17_MenuPickFeasible ==
    (ret.op = "next" /\ ~ret.raised) =>
        /\ ret.path = Some("menu") => Feasible(last_candidate[1].pred_sec)
        /\ ~Feasible(last_candidate[1].pred_sec) =>
              ret.path \in {Some("fallback"), Some("forced")}

\* next() returned the pick of a menu from which a candidate of an allowed
\* level and an active tempo had been discarded for its predicted seconds
C17_Witness ==
    /\ ret.op = "next" /\ ~ret.raised /\ ret.path = Some("menu")
    /\ \E k \in 1..Len(N_set) : \E j \in 1..Len(active_tempos) :
          /\ Abs(active_tempos[j] - last_tempo[1]) <= max_bpm_step
          /\ ~Feasible(predict_seconds(calibrators[N_set[k]], active_tempos[j]))

SetOf(seq) == {seq[k] : k \in 1..Len(seq)}

\* The tempos of this call: the active tempos, or after a candidate was
\* offered in the bout those within max_bpm_step of the last tempo, or the
\* last tempo alone when there is none
CallTempos ==
    IF last_tempo = None THEN SetOf(active_tempos)
    ELSE LET near == {t \in SetOf(active_tempos) :
                         Abs(t - last_tempo[1]) <= max_bpm_step}
         IN  IF near = {} THEN {last_tempo[1]} ELSE near

\* The pairs <<N, tempo>> that survive the feasibility filter
Survivors(curves) ==
    {pr \in SetOf(N_set) \X CallTempos :
        Feasible(predict_on_curve(curves[pr[1]], pr[2]))}

\* Distance of the expected fitness of the pair from the target
Miss(curves, pr) == Abs(expected_fitness(curves, pr[1], pr[2])[1] - F)

\* C18: the menu built by next() holds at most K = 6 candidates, each an
\* allowed level with a rate-limited active tempo that survives the
\* feasibility filter, and they are the K closest to the target: no
\* survivor left out has |Fe - F| strictly smaller than one in the menu.
C18_MenuClosestK ==
    \A curves \in {curve_table} :
    \A menu \in {make_menu(F, N_set, active_tempos, curves, last_tempo)} :
    \A surv \in {Survivors(curves)} :
        /\ Len(menu) <= 6
        /\ Len(menu) = Min2(6, Cardinality(surv))
        /\ \A k \in 1..Len(menu) :
              /\ <<menu[k].N, menu[k].tempo>> \in surv
              /\ menu[k].pred_sec
                    = predict_on_curve(curves[menu[k].N], menu[k].tempo)
              /\ menu[k].Fe
                    = expected_fitness(curves, menu[k].N, menu[k].tempo)[1]
              /\ \A j \in 1..Len(menu) :
                    (menu[j].N = menu[k].N /\ menu[j].tempo = menu[k].tempo)
                        => j = k
        /\ \A pr \in surv :
              (\A k \in 1..Len(menu) : <<menu[k].N, menu[k].tempo>> # pr) =>
                  \A miss \in {Miss(curves, pr)} :
                      \A k \in 1..Len(menu) : ~(miss < Abs(menu[k].Fe - F))

\* after next() returned in a bout whose calibrators hold observations, the
\* tempo rate limit leaves out an active tempo and more than 6 pairs survive
\* for the next menu
C18_Witness ==
    /\ ret.op = "next" /\ ~ret.raised
    /\ HasObservations
    /\ last_tempo # None
    /\ CallTempos # SetOf(active_tempos)
    /\ Cardinality(Survivors(curve_table)) > 6

\* The menu in ascending order of Fe
ByFe(menu) == StableSort(ListOf([k \in 1..Len(menu) |-> <<menu[k].Fe, menu[k]>>]))

\* The first index whose Fe >= F, the last index if there is none
CenterIndex(ms) ==
    IF \E k \in 1..Len(ms) : ms[k].Fe >= F
    THEN CHOOSE k \in 1..Len(ms) :
             /\ ms[k].Fe >= F
             /\ \A j \in 1..(k - 1) : ms[j].Fe < F
    ELSE Len(ms)

\* draws r of [0, 1): the ends of the three ranges
Draws == {0, (7 * Scale) \div 10 - 1, (7 * Scale) \div 10,
          (9 * Scale) \div 10 - 1, (9 * Scale) \div 10, Scale - 1}

\* C19: for a non-empty menu sorted by Fe ascending, with center the first
\* index whose Fe >= F (the last index if none), the candidate picked before
\* N rate-limiting is the center element for r < 0.70, the element at
\* max(0, center - 1) for 0.70 <= r < 0.90 and the element at
\* min(last, center + 1) for r >= 0.90: never more than one position away.
C19_PickAroundCenter ==
    \A menu \in {make_menu(F, N_set, active_tempos, curve_table, last_tempo)} :
        menu # <<>> =>
            \A ms \in {ByFe(menu)} : \A c \in {CenterIndex(ms)} : \A r \in Draws :
                \A pick \in {pick_from_menu(menu, F, r)} :
                    /\ 100 * r < 70 * Scale => pick = ms[c]
                    /\ (70 * Scale <= 100 * r /\ 100 * r < 90 * Scale) =>
                          pick = ms[Max2(1, c - 1)]
                    /\ 100 * r >= 90 * Scale => pick = ms[Min2(Len(ms), c + 1)]
                    /\ \E d \in {0 - 1, 0, 1} :
                          c + d \in 1..Len(ms) /\ pick = ms[c + d]

\* after next() returned the pick of a menu, the menu of the next call has
\* its center strictly inside, so that the three picks are three candidates
C19_Witness ==
    /\ ret.op = "next" /\ ~ret.raised /\ ret.path = Some("menu")
    /\ \E menu \in {make_menu(F, N_set, active_tempos, curve_table, last_tempo)} :
          /\ Len(menu) >= 3
          /\ \E ms \in {ByFe(menu)} :
                /\ 1 < CenterIndex(ms) /\ CenterIndex(ms) < Len(ms)
                /\ \A r1, r2 \in RSet :
                      r1 # r2 => pick_from_menu(menu, F, r1)
                                    # pick_from_menu(menu, F, r2)

\* C20: when the menu is empty, next() returns the candidate of the last
\* offered (N, tempo) of the bout if there is one and of (minimum allowed N,
\* minimum active tempo) otherwise, with predicted seconds and fitness of
\* that pair, the feasibility test not applied; it returns in every
\* reachable state, also right after new_bout replaced the active tempos.
C20_FallbackReturns ==
    [][(ret'.op = "next" /\ ret'.path = Some("fallback")) =>
          /\ ~ret'.raised
          /\ LET N == IF last_N # None THEN last_N[1] ELSE MinOf(N_set)
                 tempo == IF last_tempo # None THEN last_tempo[1]
                          ELSE MinOf(active_tempos)
                 curve == smoothed_curve(calibrators[N])
                 ef == expected_fitness([M \in 1..N_max |-> curve], N, tempo)
             IN  last_candidate' =
                    Some(DrillCandidate(N, tempo, predict_on_curve(curve, tempo),
                                        ef[1], ef[2]))]_vars

-----------------------------------------------------------------------------
(* Properties of feedback, of the bins and of the bout statistics *)

\* C21: an attributed feedback(correct, s) changes exactly one calibration
\* bin of the scheduler: in the calibrator of the last offered N, a bin whose
\* center is nearest the last offered tempo gets
\* ema <- (1 - lambda) * ema + lambda * s and count + 1; every other bin of
\* every calibrator is unchanged, whatever correct is.
C21_FeedbackOneBin ==
    [][(ret'.op = "feedback" /\ Attributed) =>
          \E c \in DOMAIN calibrators[last_candidate[1].N] :
              LET N == last_candidate[1].N
                  tempo == last_candidate[1].tempo
                  s == ret'.args[1].observed_sec
              IN  /\ \A d \in DOMAIN calibrators[N] :
                        Abs(c - tempo) <= Abs(d - tempo)
                  /\ calibrators'[N][c] =
                        BinStat(c,
                                Mul(Scale - ema_lambda, calibrators[N][c].ema_sec)
                                    + Mul(ema_lambda, s),
                                calibrators[N][c].count + 1)
                  /\ DOMAIN calibrators' = DOMAIN calibrators
                  /\ \A M \in DOMAIN calibrators :
                        /\ DOMAIN calibrators'[M] = DOMAIN calibrators[M]
                        /\ \A d \in DOMAIN calibrators[M] :
                              (M # N \/ d # c) =>
                                  calibrators'[M][d] = calibrators[M][d]]_vars

\* feedback(False, s) was attributed to a candidate whose tempo is no bin
\* center, and its bin holds this one observation while a bin of another
\* level holds an earlier one
C21_Witness ==
    /\ ret.op = "feedback" /\ ~ret.args[1].correct
    /\ last_candidate # None
    /\ last_candidate[1].tempo \notin DOMAIN calibrators[last_candidate[1].N]
    /\ \E c \in DOMAIN calibrators[last_candidate[1].N] :
          /\ \A d \in DOMAIN calibrators[last_candidate[1].N] :
                Abs(c - last_candidate[1].tempo) <= Abs(d - last_candidate[1].tempo)
          /\ calibrators[last_candidate[1].N][c].count = 1
    /\ \E M \in 1..N_max : \E d \in DOMAIN calibrators[M] :
          M # last_candidate[1].N /\ calibrators[M][d].count = 1

\* The N term and the tempo term of the difficulty, 0 when the bounds coincide
NTerm(N, nmax) == IF nmax = 1 THEN 0 ELSE ((N - 1) * Scale) \div (nmax - 1)
TempoTerm(tempo, tmin, tmax) ==
    IF tmin = tmax THEN 0
    ELSE Max2(0, Min2(Scale, ((tempo - tmin) * Scale) \div (tmax - tmin)))

\* C22: structural_difficulty(N, tempo) returns a value in [0, 1] for every
\* N and tempo and raises no division error: it is the clipped weighted sum
\* of the N term and the tempo term, where the tempo term is 0 when
\* t_min = t_max and the N term is 0 when N_max = 1.
C22_DifficultyBoundsCoincide ==
    call_result # None =>
        /\ ~call_result[1].raised
        /\ call_result[1].q # None
        /\ 0 <= call_result[1].q[1] /\ call_result[1].q[1] <= Scale
        /\ call_result[1].q[1] =
              Max2(0, Min2(Scale,
                  Mul(wN, NTerm(call_args.N, call_args.N_max))
                    + Mul(Scale - wN, TempoTerm(call_args.tempo, call_args.t_min,
                                                call_args.t_max))))

-----------------------------------------------------------------------------
(* Properties of fit on one element and on weights of zero *)

\* The blocks fit is left with when its loop ends
FinalBlocks(values, weights) ==
    LET n == Len(values)
        blocks == ListOf([k \in 1..n |-> <<IsoPoint(values[k], weights[k])>>])
        means == ListOf([k \in 1..n |-> block_mean(blocks[k])])
    IN  PavLoop(blocks, means, 1)

\* The positions of the input that block b of blocks holds
RECURSIVE PositionsOf(_, _)
PositionsOf(blocks, b) ==
    IF b = 1 THEN 1..Len(blocks[1])
    ELSE LET before == PositionsOf(blocks, b - 1)
             last == CHOOSE p \in before : \A q \in before : q <= p
         IN  (last + 1)..(last + Len(blocks[b]))

\* Every position of a block of total weight zero is fitted 0.0
ZeroBlocksFitZero ==
    LET blocks == FinalBlocks(fit_values, fit_weights)
    IN  /\ \A b \in 1..Len(blocks) :
              SumWeight(blocks[b]) = 0 =>
                  \A p \in PositionsOf(blocks, b) : fitted[1][p] = 0
        /\ (\A k \in 1..Len(fit_weights) : fit_weights[k] = 0) =>
              \A p \in 1..Len(fit_values) : fitted[1][p] = 0

\* C23 as stated: fit on a one-element input returns the value unchanged for
\* every value and every non-negative weight, and in any input a block of
\* total weight zero yields 0.0 for its positions.
C23_OneElementAnyWeight ==
    fitted # None =>
        /\ Len(fitted[1]) = Len(fit_values)
        /\ (Len(fit_values) = 1 /\ fit_weights[1] >= 0) => fitted[1] = fit_values
        /\ ZeroBlocksFitZero

\* C23 amended: fit on a one-element input of positive weight returns the
\* value unchanged; in any input, a one-element input of weight zero
\* included, a block of total weight zero yields 0.0 for its positions.
C23_OneElementPositiveWeight ==
    fitted # None =>
        /\ Len(fitted[1]) = Len(fit_values)
        /\ (Len(fit_values) = 1 /\ fit_weights[1] > 0) => fitted[1] = fit_values
        /\ ZeroBlocksFitZero

\* fit([2.0], [0]) returned [0.0]
C23_Witness ==
    /\ fit_values = <<2 * Scale>>
    /\ fit_weights = <<0>>
    /\ fitted = Some(<<0>>)

-----------------------------------------------------------------------------
(* Properties of the bins of a calibrator *)

\* The centers are evenly spaced from tmin to tmax, as far as integers can
\* be: the first is tmin, the last is tmax, and the gaps between neighbours
\* differ by at most 1
EvenlySpaced(centers, tmin, tmax) ==
    LET Gap(c) == CHOOSE g \in {d - c : d \in {e \in centers : e > c}} :
                      \A d \in {e \in centers : e > c} : g <= d - c
        inner == {c \in centers : c # tmax}
    IN  /\ tmin \in centers /\ tmax \in centers
        /\ \A c \in centers : tmin <= c /\ c <= tmax
        /\ \A c, d \in inner : Abs(Gap(c) - Gap(d)) <= 1

\* The bins of a calibrator that no update has touched
ColdBins(bins) ==
    \A c \in DOMAIN bins : bins[c].ema_sec = 5 * Scale /\ bins[c].count = 0

\* C24: a calibrator constructed with t_min < t_max and n >= 2 bins has
\* exactly n bins with distinct, evenly spaced centers from t_min to t_max,
\* each starting at EMA 5.0 with count 0, and its set of centers never
\* changes under update.
C24_BinsFixed ==
    /\ [](/\ Cardinality(DOMAIN cal_bins) = call_args.n_bins
          /\ \A c \in DOMAIN cal_bins : cal_bins[c].tempo_center = c
          /\ EvenlySpaced(DOMAIN cal_bins, call_args.t_min, call_args.t_max)
          /\ cal_updates = 0 => ColdBins(cal_bins))
    /\ [][DOMAIN cal_bins' = DOMAIN cal_bins]_vars

\* C26: every candidate returned by next() has its N in the allowed set of
\* levels and its tempo in the active tempo set of the current bout, on
\* every path of _sample_from_menu that returns and after any calls.
C26_CandidateInSets ==
    (ret.op = "next" /\ ~ret.raised) =>
        /\ last_candidate # None
        /\ \E k \in 1..Len(N_set) : N_set[k] = last_candidate[1].N
        /\ \E j \in 1..Len(active_tempos) :
              active_tempos[j] = last_candidate[1].tempo

\* next() returned from its empty-menu fallback the last offered pair, in a
\* bout that new_bout started with other tempos than the hub was made with
C26_Witness ==
    /\ ret.op = "next" /\ ~ret.raised /\ ret.path = Some("fallback")
    /\ active_tempos = <<80, 88, 96>>
    /\ last_candidate # None /\ last_candidate[1].tempo # 80
    /\ HasObservations

\* The sum of bins[c].count over the centers c of S
RECURSIVE CountOver(_, _)
CountOver(bins, S) ==
    IF S = {} THEN 0
    ELSE LET c == CHOOSE x \in S : TRUE
         IN  bins[c].count + CountOver(bins, S \ {c})

\* The sum of the observation counts over all bins of all calibrators
TotalCount ==
    LET upto[n \in 0..N_max] ==
            IF n = 0 THEN 0
            ELSE upto[n - 1]
                   + CountOver(calibrators[n],
                               {c \in DOMAIN calibrators[n] :
                                   calibrators[n][c].count # 0})
    IN  upto[N_max]

\* C27: in every reachable state the sum of the observation counts over all
\* bins of all calibrators is the number of attributed feedback calls of the
\* scheduler's lifetime and the bout's item_count is at most that sum; no
\* count ever decreases, in new_bout neither.
C27_CountsMatchFeedback ==
    /\ [](TotalCount = fb_total /\ bout.n_items <= TotalCount)
    /\ [][\A N \in 1..N_max :
             /\ DOMAIN calibrators'[N] = DOMAIN calibrators[N]
             /\ \A c \in DOMAIN calibrators[N] :
                   calibrators'[N][c].count >= calibrators[N][c].count]_vars

\* new_bout was called after two attributed feedback calls: the bout has no
\* item and the bins hold the two observations
C27_Witness ==
    /\ ret.op = "new_bout"
    /\ fb_total = 2 /\ TotalCount = 2
    /\ bout.n_items = 0

-----------------------------------------------------------------------------
(* Properties of a watched scheduler *)

\* C25: a feedback call made when no candidate has been offered in the
\* current bout (on a new scheduler, or after new_bout and before a next()
\* that returns) changes nothing: not the bout statistics, not a calibrator.
C25_FeedbackBeforeOffer ==
    [][(ret'.op = "feedback" /\ ~watch[1].offered) =>
          /\ UNCHANGED hub_vars
          /\ UNCHANGED <<fb_total, curve_table>>]_vars

\* feedback(True, 1.5) was called after new_bout and before next(), when the
\* bout before had a candidate and an attributed feedback
C25_Witness ==
    /\ ret.op = "feedback" /\ ret.args[1].correct
    /\ ret.args[1].observed_sec = (15 * Scale) \div 10
    /\ ~watch[1].offered /\ watch[1].calls = 0
    /\ HasObservations
    /\ bout = BoutStats(0, 0)

\* C28: in every reachable state 0 <= cumulative_score <= item_count, so
\* average_score is in [0, 1]; within a bout item_count and cumulative_score
\* never decrease, and item_count never exceeds the number of next() calls
\* made in that bout.
C28_BoutStatsBounded ==
    /\ [](/\ 0 <= bout.sum_score
          /\ bout.sum_score <= bout.n_items * Scale
          /\ 0 <= avg_score(bout) /\ avg_score(bout) <= Scale
          /\ bout.n_items <= watch[1].calls)
    /\ [][ret'.op # "new_bout" =>
             /\ bout'.n_items >= bout.n_items
             /\ bout'.sum_score >= bout.sum_score]_vars

-----------------------------------------------------------------------------
(* Properties of a scheduler without observations *)

\* The tempos of the prediction: the probes and the tempos of the bouts
ColdTempos == ProbeTempos \cup {72, 84, 96, 80, 88, 200}

\* C29: on a scheduler that received no feedback yet, predict_seconds
\* returns the same value for every level and every tempo, a value within
\* [T_MIN_SEC, T_MAX_SEC]; the menu of the first next() is non-empty, and
\* that next() returns its candidate from the menu, not from the fallback.
\* Between two centers the value is (1 - a) * s + a * s of the one curve
\* value s: each of the two products is cut down to a multiple of 1 / Scale
\* here, so "the same value" is s or the multiple just below it.
C29_ColdPredictionFlat ==
    /\ [](fb_total = 0 =>
            \E p \in {predict_seconds(calibrators[1], 91)} :
                /\ T_MIN_SEC <= p /\ p <= T_MAX_SEC
                /\ \A N \in 1..N_max : \A tempo \in ColdTempos :
                      \E q \in {predict_seconds(calibrators[N], tempo)} :
                          /\ q \in {p - 1, p}
                          /\ T_MIN_SEC <= q /\ q <= T_MAX_SEC
                          /\ (\/ tempo \in DOMAIN calibrators[N]
                              \/ tempo <= t_min \/ tempo >= t_max) => q = p)
    /\ [](ret.op = "init" =>
            make_menu(F, N_set, active_tempos, curve_table, last_tempo) # <<>>)
    /\ [][(ret.op = "init" /\ ret'.op = "next") =>
             /\ ~ret'.raised
             /\ ret'.path = Some("menu")
             /\ last_candidate' # None
             /\ Feasible(last_candidate'[1].pred_sec)]_vars

\* next() returned a candidate of the menu on a scheduler that received no
\* feedback, with the prediction of a calibrator without observations
C29_Witness ==
    /\ ret.op = "next" /\ ~ret.raised /\ ret.path = Some("menu")
    /\ fb_total = 0 /\ ~HasObservations
    /\ last_candidate # None
    /\ last_candidate[1].pred_sec \in
           {predict_seconds(NewCalibrator, t_min) - 1,
            predict_seconds(NewCalibrator, t_min)}

-----------------------------------------------------------------------------
(* Properties of a bout whose tempos lie far apart *)

\* Every two distinct tempos of the active set differ by more than
\* max_bpm_step
SpreadTempos ==
    \A i, j \in 1..Len(active_tempos) :
        active_tempos[i] # active_tempos[j] =>
            Abs(active_tempos[i] - active_tempos[j]) > max_bpm_step

\* C30: when every two distinct active tempos differ by more than
\* max_bpm_step, every candidate that next() returns after the first one of
\* a bout has the tempo of the candidate before it, hence of the first; the
\* last offered tempo changes in new_bout only.
C30_SpreadTemposStay ==
    [][SpreadTempos =>
          /\ (ret'.op = "next" /\ ~ret'.raised /\ last_tempo # None) =>
                 /\ last_candidate'[1].tempo = last_tempo[1]
                 /\ last_tempo' = last_tempo
          /\ (last_tempo # None /\ last_tempo' # last_tempo) =>
                 ret'.op = "new_bout"]_vars

\* next() returned a candidate after feedback on an earlier one of the bout,
\* whose three tempos lie 12 apart, at the tempo offered before
C30_Witness ==
    /\ ret.op = "next" /\ ~ret.raised
    /\ active_tempos = <<72, 84, 96>>
    /\ bout.n_items > 0 /\ HasObservations
    /\ last_candidate # None
    /\ last_tempo = Some(last_candidate[1].tempo)

=============================================================================
